---- MODULE Spec2Model ----
(***************************************************************************)
(* Model of the rate-limiting middleware of the subscription tracker:     *)
(* createRateLimiter (middlewares/rateLimiter.middleware.js) working on    *)
(* the RateLimitLog collection (models/rateLimitLog.model.js).             *)
(*                                                                         *)
(* A request runs the middleware as a chain of steps separated by the     *)
(* awaited store calls: the synchronous prologue (Date.now(), identifier   *)
(* resolution), RateLimitLog.findOne, the synchronous decision, then one   *)
(* of RateLimitLog.create / record.save, and for the increment path the    *)
(* res.json override run by the route handler.  Steps of different         *)
(* requests interleave freely; the clock advances between steps.           *)
(*                                                                         *)
(* record.save() is a Mongoose save of a loaded document: it sends a $set  *)
(* of the paths assigned a different value since the document was loaded,  *)
(* it is not an atomic increment and it does not rewrite untouched paths.  *)
(*                                                                         *)
(* Three specifications share the actions: Spec (requests of one caller    *)
(* interleaved in every way), SpecSeq (longer runs, one request at a time) *)
(* and SpecRace (more interleaved requests under one limiter without skip  *)
(* options).                                                               *)
(***************************************************************************)
EXTENDS Integers, FiniteSets, Sequences, TLC

\* ------------------------------------------------------------------ bounds
NReq == 2        \* concurrent requests of a run of Spec
NSeq == 4        \* requests of a run of SpecSeq
MaxTime == 3     \* last clock value
MaxQuota == 2    \* largest maxRequests
WindowMs == 2    \* windowMs of the modelled limiters, in clock ticks
NRace == 4       \* requests of a run of SpecRace
NMix == 2        \* requests of a run of SpecMix
NSkip == 3       \* requests of a run of SpecSkip
NLive == 2       \* requests of a run of SpecLive
NIntro == 2      \* requests of a run of SpecIntro
NChain == 4      \* limiter invocations of a run of SpecRoutes
NAgree == 3      \* requests of a run of SpecAgree
NAdmin == 2      \* limiter invocations of a run of SpecAdmin
MaxStart == 3    \* latest start date of a subscription, in days

\* The divisor of retryAfter: milliseconds in a second.
MsPerSecond == 1000

\* expireAfterSeconds of the TTL index on windowStart (3600 s), in clock
\* ticks: longer than the window of every modelled limiter.
\* The limit and window getUserRateLimit reports (60 and 60000 ms in the
\* source, scaled so that a stored count can reach the limit), and the
\* length of recentActivity (10 in the source, scaled likewise).
UsageLimit == 2
UsageWindowMs == 2
RecentLimit == 1

\* The window lengths of the pre-configured limiters and the TTL of the
\* index, in the units of the source (ms, s).
PresetWindowsMs == {15 * 60 * 1000, 60 * 1000}
ExpireAfterSeconds == 3600

RetentionMs == 3

Req == 1..NReq
Time == 0..MaxTime

\* ------------------------------------------------------- request inputs
\* req.user as attached by the authentication layer: absent, or an identity
\* with an id.
NoUser == [present |-> FALSE, id |-> ""]
User1 == [present |-> TRUE, id |-> "u1"]

\* What the routing layer hands to the middleware: req.user and the address
\* (req.ip || req.connection?.remoteAddress; "" stands for both undefined).
\* An anonymous and an authenticated caller on the loopback address, and an
\* anonymous caller whose address is not available.
Callers ==
    {[user |-> NoUser, ip |-> "::1"], [user |-> User1, ip |-> "::1"],
     [user |-> NoUser, ip |-> ""]}

\* An identity object without id and userId.
UserNoId == [present |-> TRUE, id |-> ""]

\* The callers of the runs of SpecMix: both loopback addresses, an
\* authenticated caller, an identity without id, and no address.
MixCallers ==
    {[user |-> NoUser, ip |-> "::1"], [user |-> NoUser, ip |-> "127.0.0.1"],
     [user |-> User1, ip |-> "::1"], [user |-> UserNoId, ip |-> "::1"],
     [user |-> NoUser, ip |-> ""]}

Types == {"ip", "token", "hybrid"}

\* The options object of createRateLimiter (message left out: it is only
\* echoed in the 429 body).
Policies ==
    [type : Types, maxRequests : 1..MaxQuota, windowMs : {WindowMs},
     skipSuccessfulRequests : {FALSE}, skipFailedRequests : {FALSE}]
    \cup
    [type : {"hybrid"}, maxRequests : {MaxQuota}, windowMs : {WindowMs},
     skipSuccessfulRequests : {TRUE}, skipFailedRequests : {FALSE}]

\* The limiters the routers mount.  Their quotas 3 < 10 < 20 < 60 and the
\* documented sign-in quota 5 are scaled to 1 < 3 < 4 < 5 and 2, their
\* one-minute window to MinuteMs.
RegistrationQuota == 1
SignInDocQuota == 2
StrictQuota == 3
IpQuota == 4
GeneralQuota == 5
MinuteMs == 2

ipRateLimiter ==
    [type |-> "ip", maxRequests |-> IpQuota, windowMs |-> MinuteMs,
     skipSuccessfulRequests |-> FALSE, skipFailedRequests |-> FALSE]
registrationRateLimiter ==
    [type |-> "ip", maxRequests |-> RegistrationQuota, windowMs |-> MinuteMs,
     skipSuccessfulRequests |-> FALSE, skipFailedRequests |-> FALSE]
generalRateLimiter ==
    [type |-> "hybrid", maxRequests |-> GeneralQuota, windowMs |-> MinuteMs,
     skipSuccessfulRequests |-> FALSE, skipFailedRequests |-> FALSE]
strictRateLimiter ==
    [type |-> "hybrid", maxRequests |-> StrictQuota, windowMs |-> MinuteMs,
     skipSuccessfulRequests |-> FALSE, skipFailedRequests |-> FALSE]

\* POST /auth/sign-in, POST /auth/sign-up, POST /users and
\* GET /users/:id/rate-limit, and the limiters each request passes in order.
Routes == {"sign-in", "sign-up", "users", "rate-limit"}
Chain(route) ==
    CASE route = "sign-in" -> <<ipRateLimiter>>
      [] route = "sign-up" -> <<ipRateLimiter>>
      [] route = "users" -> <<registrationRateLimiter>>
      [] route = "rate-limit" -> <<generalRateLimiter, strictRateLimiter>>
      [] route = "stats" -> <<generalRateLimiter, strictRateLimiter>>

\* req.user when the limiters of a route run: set by authenticate on the
\* routes behind userRouter.use(authenticate), absent on the public ones.
RouteUser(route) == IF route = "rate-limit" THEN User1 ELSE NoUser

\* The limiter of the runs of SpecRace: room for three counted requests
\* after the one that creates the record.
RacePolicy ==
    [type |-> "hybrid", maxRequests |-> MaxQuota + 1, windowMs |-> WindowMs,
     skipSuccessfulRequests |-> FALSE, skipFailedRequests |-> FALSE]

\* ------------------------------------------------------------ documents
\* A RateLimitLog document; id 0 is "no document" (findOne returned null).
\* A limiter that does not count successful requests, with room for every
\* request of a run of SpecSkip.
SkipPolicy ==
    [type |-> "hybrid", maxRequests |-> NSkip, windowMs |-> WindowMs,
     skipSuccessfulRequests |-> TRUE, skipFailedRequests |-> FALSE]

NoRecord == [id |-> 0, identifier |-> "", count |-> 0, windowStart |-> 0, lastRequest |-> 0]

\* No answer yet, and the body of an answer that has none.
NoBody == [none |-> TRUE]
NoResp ==
    [op |-> "", user |-> NoUser, at |-> 0, rec |-> NoRecord, status |-> 0,
     body |-> NoBody, repeat |-> FALSE, same |-> FALSE]

\* No request to the statistics route yet.  req.user carries the id and
\* role authenticate copies from the user document.
NoReqUser == [present |-> FALSE, id |-> "", role |-> ""]
NoAuth ==
    [pc |-> "idle", header |-> "", token |-> "", lookup |-> "", status |-> 0,
     nexts |-> 0, user |-> NoReqUser, first |-> 0]

\* No subscription document.
Absent == -1
NoSub ==
    [pc |-> "none", startDate |-> Absent, frequency |-> "", renewalDate |-> Absent,
     given |-> Absent, error |-> ""]

VARIABLES
    clock,      \* Date.now()
    store,      \* the RateLimitLog collection: document id -> document
    policies,   \* the limiters configured in this process
    callers,    \* the callers that send requests in this run
    rq,         \* per request: control state, locals and what it answered
    concurrent, \* history: some request started while another was in flight
    resp,       \* the introspection controllers: last call and its answer
    auth,       \* the request to the statistics route: what authenticate did
    sub         \* the subscription document being saved

vars == <<clock, store, policies, callers, rq, concurrent, resp, auth, sub>>

IdleReq ==
    [pc |-> "idle", policy |-> CHOOSE p \in Policies : TRUE, user |-> NoUser, ip |-> "",
     now |-> 0, identifier |-> "", record |-> NoRecord, dirty |-> {},
     seen |-> NoRecord, path |-> "", outcome |-> "",
     limited |-> FALSE, remaining |-> 0, reset |-> 0, hdrType |-> "",
     failed |-> FALSE, wrote |-> FALSE,
     nexts |-> 0, limit |-> 0, error |-> "", retryAfter |-> 0,
     wrapped |-> FALSE, status |-> "", route |-> ""]

\* ---------------------------------------------------- identifier resolution
\* A normalisation that knows the IPv6 loopback only.
NormalizeAddressV6Only(ip) ==
    LET a == IF ip = "" THEN "unknown" ELSE ip
    IN  IF a = "::1" THEN "localhost" ELSE a

\* req.ip || req.connection?.remoteAddress || 'unknown', then the loopback
\* normalisation.
NormalizeAddress(ip) ==
    LET a == IF ip = "" THEN "unknown" ELSE ip
    IN  IF a = "::1" \/ a = "127.0.0.1" THEN "localhost" ELSE a

\* req.user?.id || req.user?.userId
UserId(user) == user.id

\* A chain that prefers the user id under every type.
ResolveIdentifierPreferUser(type, user, ip) ==
    IF user.present THEN UserId(user) ELSE NormalizeAddress(ip)

\* A chain that keys every request on the address.
ResolveIdentifierAddressOnly(type, user, ip) == NormalizeAddress(ip)

\* The if / else-if / else chain that picks the identifier.
ResolveIdentifier(type, user, ip) ==
    IF type = "token" /\ user.present
    THEN UserId(user)
    ELSE IF type = "ip" \/ ~user.present
         THEN NormalizeAddress(ip)
         ELSE IF user.present THEN UserId(user) ELSE NormalizeAddress(ip)

\* The identifier check without the 'unknown' case.
NoIdentifierEmptyOnly(identifier) == identifier = ""

\* if (!identifier || identifier === 'unknown') return next();
NoIdentifier(identifier) == identifier = "" \/ identifier = "unknown"

\* "X-RateLimit-Type": req.user ? 'token' : 'ip'
LimitType(user) == IF user.present THEN "token" ELSE "ip"

\* ------------------------------------------------------ document methods
\* isWindowExpired with a strict comparison.
isWindowExpiredStrict(rec, windowMs, t) == t - rec.windowStart > windowMs

\* rateLimitLogSchema.methods.isWindowExpired, evaluated at time t.
isWindowExpired(rec, windowMs, t) == t - rec.windowStart >= windowMs

\* rateLimitLogSchema.methods.resetWindow, run at time t.
resetWindow(rec, t) == [rec EXCEPT !.count = 1, !.windowStart = t, !.lastRequest = t]

\* The limit check off by one.
OverLimitOffByOne(rec, maxRequests) == rec.count > maxRequests

\* if (record.count >= maxRequests)
OverLimit(rec, maxRequests) == rec.count >= maxRequests

\* Paths Mongoose marks modified when a document goes from old to new.
Modified(old, new) ==
    {f \in {"count", "windowStart", "lastRequest"} : old[f] # new[f]}

\* The document in the collection after a save of rec with the given
\* modified paths.
Saved(doc, rec, dirty) ==
    [f \in DOMAIN doc |-> IF f \in dirty THEN rec[f] ELSE doc[f]]

\* Documents findOne({ identifier }) can return.
Matching(identifier) == {d \in DOMAIN store : store[d].identifier = identifier}

InFlight(r) == rq[r].pc \notin {"idle", "done"}

\* ---------------------------------------------------------------- Init
Init ==
    /\ clock = 0
    /\ store = <<>>
    /\ \E p \in Policies : policies = {p}
    /\ \E c \in Callers : callers = {c}
    /\ rq = [r \in Req |-> IdleReq]
    /\ concurrent = FALSE
    /\ resp = NoResp
    /\ auth = NoAuth
    /\ sub = NoSub

\* As Init, for the longer runs of SpecSeq.
InitSeq ==
    /\ clock = 0
    /\ store = <<>>
    /\ \E p \in Policies : policies = {p}
    /\ \E c \in Callers : callers = {c}
    /\ rq = [r \in 1..NSeq |-> IdleReq]
    /\ concurrent = FALSE
    /\ resp = NoResp
    /\ auth = NoAuth
    /\ sub = NoSub

\* Runs in which every request may come from any of MixCallers.
InitMix ==
    /\ clock = 0
    /\ store = <<>>
    /\ \E p \in Policies : policies = {p}
    /\ callers = MixCallers
    /\ rq = [r \in 1..NMix |-> IdleReq]
    /\ concurrent = FALSE
    /\ resp = NoResp
    /\ auth = NoAuth
    /\ sub = NoSub

\* A run of NRace requests of one caller with an address, under RacePolicy.
InitRace ==
    /\ clock = 0
    /\ store = <<>>
    /\ policies = {RacePolicy}
    /\ callers = {[user |-> NoUser, ip |-> "::1"]}
    /\ rq = [r \in 1..NRace |-> IdleReq]
    /\ concurrent = FALSE
    /\ resp = NoResp
    /\ auth = NoAuth
    /\ sub = NoSub

\* As Init, for the runs of SpecLive.
InitLive ==
    /\ clock = 0
    /\ store = <<>>
    /\ \E p \in Policies : policies = {p}
    /\ \E c \in Callers : callers = {c}
    /\ rq = [r \in 1..NLive |-> IdleReq]
    /\ concurrent = FALSE
    /\ resp = NoResp
    /\ auth = NoAuth
    /\ sub = NoSub

\* A run of NSkip requests of one caller with an address, under SkipPolicy.
InitSkip ==
    /\ clock = 0
    /\ store = <<>>
    /\ policies = {SkipPolicy}
    /\ callers = {[user |-> NoUser, ip |-> "::1"]}
    /\ rq = [r \in 1..NSkip |-> IdleReq]
    /\ concurrent = FALSE
    /\ resp = NoResp
    /\ auth = NoAuth
    /\ sub = NoSub

\* Runs of SpecIntro: two callers under one hybrid limiter without skip
\* options, and the introspection controllers.
InitIntro ==
    /\ clock = 0
    /\ store = <<>>
    /\ policies = {[type |-> "hybrid", maxRequests |-> MaxQuota, windowMs |-> WindowMs,
                    skipSuccessfulRequests |-> FALSE, skipFailedRequests |-> FALSE]}
    /\ callers = {[user |-> NoUser, ip |-> "::1"], [user |-> User1, ip |-> "::1"]}
    /\ rq = [r \in 1..NIntro |-> IdleReq]
    /\ concurrent = FALSE
    /\ resp = NoResp
    /\ auth = NoAuth
    /\ sub = NoSub

\* Runs of SpecRoutes: requests of one client machine to the routes.
InitRoutes ==
    /\ clock = 0
    /\ store = <<>>
    /\ policies = {ipRateLimiter, registrationRateLimiter, generalRateLimiter,
                   strictRateLimiter}
    /\ callers = {[user |-> NoUser, ip |-> "::1"], [user |-> User1, ip |-> "::1"]}
    /\ rq = [r \in 1..NChain |-> IdleReq]
    /\ concurrent = FALSE
    /\ resp = NoResp
    /\ auth = NoAuth
    /\ sub = NoSub

\* Runs of SpecAgree: one user under generalRateLimiter with the limit and
\* window getUserRateLimit reports for it.
InitAgree ==
    /\ clock = 0
    /\ store = <<>>
    /\ policies = {[type |-> "hybrid", maxRequests |-> UsageLimit,
                    windowMs |-> UsageWindowMs,
                    skipSuccessfulRequests |-> FALSE, skipFailedRequests |-> FALSE]}
    /\ callers = {[user |-> User1, ip |-> "::1"]}
    /\ rq = [r \in 1..NAgree |-> IdleReq]
    /\ concurrent = FALSE
    /\ resp = NoResp
    /\ auth = NoAuth
    /\ sub = NoSub

\* ------------------------------------------------------------- actions
\* Time passes.
Tick ==
    /\ clock < MaxTime
    /\ clock' = clock + 1
    /\ UNCHANGED <<store, policies, callers, resp, rq, concurrent, auth, sub>>

\* The request enters the middleware: now = Date.now(), the identifier is
\* resolved, and either next() is called at once or findOne is issued.
Start(r) ==
    /\ rq[r].pc = "idle"
    /\ \A q \in DOMAIN rq : q < r => rq[q].pc # "idle"
    /\ \E p \in policies, c \in callers :
         LET ident == ResolveIdentifier(p.type, c.user, c.ip)
             base  == [rq[r] EXCEPT !.policy = p, !.user = c.user, !.ip = c.ip,
                                    !.now = clock, !.identifier = ident]
         IN  rq' = [rq EXCEPT ![r] =
                      IF NoIdentifier(ident)
                      THEN [base EXCEPT !.pc = "done", !.path = "skip", !.outcome = "next",
                                        !.nexts = 1]
                      ELSE [base EXCEPT !.pc = "findOne"]]
    /\ concurrent' = (concurrent \/ \E q \in DOMAIN rq : InFlight(q))
    /\ UNCHANGED <<clock, store, policies, callers, resp, auth, sub>>

\* A request that enters the middleware when every earlier request has been
\* answered.
StartAlone(r) ==
    /\ \A q \in DOMAIN rq : ~InFlight(q)
    /\ Start(r)

\* The limiter invocation q called next() and its route has a second limiter.
MidChain(q) ==
    /\ rq[q].pc = "done" /\ rq[q].outcome = "next"
    /\ rq[q].route # "" /\ Len(Chain(rq[q].route)) = 2
    /\ rq[q].policy = Chain(rq[q].route)[1]

\* A limiter of a route is entered when every earlier invocation has ended:
\* the second limiter of the route if the first one has just called next(),
\* else the first limiter of a new request to some route.
StartRoute(r) ==
    /\ rq[r].pc = "idle"
    /\ \A q \in DOMAIN rq : q < r => rq[q].pc # "idle"
    /\ \A q \in DOMAIN rq : ~InFlight(q)
    /\ \E route \in Routes :
         LET second == r > 1 /\ MidChain(r - 1)
             p == IF second THEN Chain(route)[2] ELSE Chain(route)[1]
             user == RouteUser(route)
             ident == ResolveIdentifier(p.type, user, "::1")
             base  == [rq[r] EXCEPT !.policy = p, !.user = user, !.ip = "::1",
                                    !.now = clock, !.identifier = ident,
                                    !.route = route]
         IN  /\ second => route = rq[r - 1].route
             /\ rq' = [rq EXCEPT ![r] =
                         IF NoIdentifier(ident)
                         THEN [base EXCEPT !.pc = "done", !.path = "skip",
                                           !.outcome = "next", !.nexts = 1]
                         ELSE [base EXCEPT !.pc = "findOne"]]
    /\ UNCHANGED <<clock, store, policies, callers, resp, concurrent, auth, sub>>

\* The store answers RateLimitLog.findOne({ identifier }).
FindOne(r) ==
    /\ rq[r].pc = "findOne"
    /\ \E rec \in (IF Matching(rq[r].identifier) = {} THEN {NoRecord}
                   ELSE {store[d] : d \in Matching(rq[r].identifier)}) :
         rq' = [rq EXCEPT ![r].pc = "decide", ![r].record = rec, ![r].seen = rec]
    /\ UNCHANGED <<clock, store, policies, callers, resp, concurrent, auth, sub>>

\* Math.ceil(a / b) for b > 0.
CeilDiv(a, b) == IF a >= 0 THEN (a + b - 1) \div b ELSE -((-a) \div b)

\* getTime() of a clock value: the clock counts seconds, Dates count ms.
ToMs(t) == t * MsPerSecond

\* retryAfter: Math.ceil((resetTime.getTime() - now) / 1000)
RetryAfter(reset, now) == CeilDiv(ToMs(reset) - ToMs(now), MsPerSecond)

\* A 429 that counts the rejected request in the stored record.
RejectCounting(r) ==
    LET p == rq[r].policy  rec == rq[r].record
    IN  /\ store' = [d \in DOMAIN store |->
                       IF d = rec.id THEN [store[d] EXCEPT !.count = rec.count + 1]
                       ELSE store[d]]
        /\ rq' = [rq EXCEPT ![r].pc = "done", ![r].path = "reject", ![r].outcome = "429",
                           ![r].record = NoRecord, ![r].seen = NoRecord,
                           ![r].remaining = 0, ![r].wrote = TRUE,
                           ![r].limit = p.maxRequests,
                           ![r].error = "RATE_LIMIT_EXCEEDED",
                           ![r].retryAfter = RetryAfter(rec.windowStart + p.windowMs, rq[r].now),
                           ![r].reset = rec.windowStart + p.windowMs,
                           ![r].hdrType = LimitType(rq[r].user)]

\* A 429 that also calls next().
RejectAndNext(r) ==
    LET p == rq[r].policy  rec == rq[r].record
    IN  /\ store' = store
        /\ rq' = [rq EXCEPT ![r].pc = "done", ![r].path = "reject", ![r].outcome = "429",
                           ![r].record = NoRecord, ![r].seen = NoRecord,
                           ![r].remaining = 0,
                           ![r].nexts = @ + 1,
                           ![r].limit = p.maxRequests,
                           ![r].error = "RATE_LIMIT_EXCEEDED",
                           ![r].retryAfter = RetryAfter(rec.windowStart + p.windowMs, rq[r].now),
                           ![r].reset = rec.windowStart + p.windowMs,
                           ![r].hdrType = LimitType(rq[r].user)]

\* return res.status(429).json({...}): the answer of a request that finds
\* the count at the limit in a live window; nothing is saved.
Reject(r) ==
    LET p == rq[r].policy  rec == rq[r].record
    IN  /\ store' = store
        /\ rq' = [rq EXCEPT ![r].pc = "done", ![r].path = "reject", ![r].outcome = "429",
                           ![r].record = NoRecord, ![r].seen = NoRecord,
                           ![r].remaining = 0,
                           ![r].limit = p.maxRequests,
                           ![r].error = "RATE_LIMIT_EXCEEDED",
                           ![r].retryAfter = RetryAfter(rec.windowStart + p.windowMs, rq[r].now),
                           ![r].reset = rec.windowStart + p.windowMs,
                           ![r].hdrType = LimitType(rq[r].user)]

\* The synchronous code after findOne: no record -> create; window expired
\* -> resetWindow and save; count >= maxRequests -> 429; else increment and
\* save.
Decide(r) ==
    /\ rq[r].pc = "decide"
    /\ LET p == rq[r].policy  rec == rq[r].record
       IN  IF rec.id = 0
           THEN /\ rq' = [rq EXCEPT ![r].pc = "create"]
                /\ store' = store
           ELSE IF isWindowExpired(rec, p.windowMs, clock)
           THEN LET new == resetWindow(rec, clock)
                IN  /\ rq' = [rq EXCEPT ![r].pc = "saveReset", ![r].record = new,
                                        ![r].dirty = Modified(rec, new)]
                    /\ store' = store
           ELSE IF OverLimit(rec, p.maxRequests)
           THEN Reject(r)
           ELSE LET new == [rec EXCEPT !.count = rec.count + 1, !.lastRequest = rq[r].now]
                IN  /\ rq' = [rq EXCEPT ![r].pc = "saveCount", ![r].record = new,
                                        ![r].dirty = Modified(rec, new)]
                    /\ store' = store
    /\ UNCHANGED <<clock, policies, callers, resp, concurrent, auth, sub>>

\* One of the options that make the answer of the route handler matter.
SkipOptions(p) == p.skipSuccessfulRequests \/ p.skipFailedRequests

\* The store executes RateLimitLog.create; headers are set and next() runs
\* (res.json is not wrapped on this path).
Create(r) ==
    /\ rq[r].pc = "create"
    /\ LET p == rq[r].policy
           doc == [id |-> r, identifier |-> rq[r].identifier, count |-> 1,
                   lastRequest |-> rq[r].now, windowStart |-> rq[r].now]
       IN  /\ store' = (r :> doc) @@ store
           /\ rq' = [rq EXCEPT ![r].pc = IF SkipOptions(p) THEN "handler" ELSE "done",
                               ![r].path = "create", ![r].outcome = "next",
                               ![r].nexts = @ + 1, ![r].limit = p.maxRequests,
                               ![r].limited = TRUE, ![r].wrote = TRUE,
                               ![r].remaining = p.maxRequests - 1,
                               ![r].reset = rq[r].now + p.windowMs,
                               ![r].hdrType = LimitType(rq[r].user)]
    /\ UNCHANGED <<clock, policies, callers, resp, concurrent, auth, sub>>

\* The store executes the save of the rolled-over record; headers are set
\* and next() runs (res.json is not wrapped on this path).
SaveReset(r) ==
    /\ rq[r].pc = "saveReset"
    /\ rq[r].record.id \in DOMAIN store
    /\ LET p == rq[r].policy  rec == rq[r].record
       IN  /\ store' = [store EXCEPT ![rec.id] = Saved(@, rec, rq[r].dirty)]
           /\ rq' = [rq EXCEPT ![r].pc = IF SkipOptions(p) THEN "handler" ELSE "done",
                               ![r].path = "reset", ![r].outcome = "next",
                               ![r].nexts = @ + 1, ![r].limit = p.maxRequests,
                               ![r].record = NoRecord, ![r].dirty = {},
                               ![r].limited = TRUE, ![r].wrote = TRUE,
                               ![r].remaining = p.maxRequests - 1,
                               ![r].reset = rq[r].now + p.windowMs,
                               ![r].hdrType = LimitType(rq[r].user)]
    /\ UNCHANGED <<clock, policies, callers, resp, concurrent, auth, sub>>

\* Math.max(0, maxRequests - record.count)
Remaining(maxRequests, count) == IF maxRequests - count > 0 THEN maxRequests - count ELSE 0

\* The store executes the save of the incremented record; headers are set,
\* res.json is wrapped and next() runs.
SaveCount(r) ==
    /\ rq[r].pc = "saveCount"
    /\ rq[r].record.id \in DOMAIN store
    /\ LET p == rq[r].policy  rec == rq[r].record
           skips == SkipOptions(p)
       IN  /\ store' = [store EXCEPT ![rec.id] = Saved(@, rec, rq[r].dirty)]
           /\ rq' = [rq EXCEPT ![r].pc = IF skips THEN "handler" ELSE "done",
                               ![r].record = IF skips THEN rec ELSE NoRecord,
                               ![r].seen = NoRecord,
                               ![r].path = "count", ![r].outcome = "next",
                               ![r].nexts = @ + 1, ![r].limit = p.maxRequests,
                               ![r].wrapped = skips,
                               ![r].dirty = {}, ![r].limited = TRUE, ![r].wrote = TRUE,
                               ![r].remaining = Remaining(p.maxRequests, rec.count),
                               ![r].reset = rec.windowStart + p.windowMs,
                               ![r].hdrType = LimitType(rq[r].user)]
    /\ UNCHANGED <<clock, policies, callers, resp, concurrent, auth, sub>>

\* (requestSucceeded && skipSuccessfulRequests) ||
\* (!requestSucceeded && skipFailedRequests)
Excluded(p, succeeded) ==
    (succeeded /\ p.skipSuccessfulRequests) \/ (~succeeded /\ p.skipFailedRequests)

\* A handler whose answer runs the wrapped res.json twice.
RespondTwice(r) ==
    /\ rq[r].pc = "handler"
    /\ \E succeeded \in BOOLEAN :
         LET p == rq[r].policy  rec == rq[r].record
             st == IF succeeded THEN "ok" ELSE "fail"
         IN  IF rq[r].wrapped /\ Excluded(p, succeeded)
             THEN LET new == [rec EXCEPT !.count = rec.count - 2]
                  IN  rq' = [rq EXCEPT ![r].pc = "saveSkip", ![r].record = new,
                                       ![r].dirty = Modified(rec, new),
                                       ![r].status = st]
             ELSE rq' = [rq EXCEPT ![r].pc = "done", ![r].record = NoRecord,
                                   ![r].status = st]
    /\ UNCHANGED <<clock, store, policies, callers, resp, concurrent, auth, sub>>

\* The route handler answers with res.json; succeeded is
\* res.statusCode >= 200 && res.statusCode < 400.  Only the res.json wrapped
\* on the increment path looks at the answer.
Respond(r) ==
    /\ rq[r].pc = "handler"
    /\ \E succeeded \in BOOLEAN :
         LET p == rq[r].policy  rec == rq[r].record
             st == IF succeeded THEN "ok" ELSE "fail"
         IN  IF rq[r].wrapped /\ Excluded(p, succeeded)
             THEN LET new == [rec EXCEPT !.count = rec.count - 1]
                  IN  rq' = [rq EXCEPT ![r].pc = "saveSkip", ![r].record = new,
                                       ![r].dirty = Modified(rec, new),
                                       ![r].status = st]
             ELSE rq' = [rq EXCEPT ![r].pc = "done", ![r].record = NoRecord,
                                   ![r].status = st]
    /\ UNCHANGED <<clock, store, policies, callers, resp, concurrent, auth, sub>>

\* The store executes the save of the decremented record.
SaveSkip(r) ==
    /\ rq[r].pc = "saveSkip"
    /\ rq[r].record.id \in DOMAIN store
    /\ store' = [store EXCEPT ![rq[r].record.id] = Saved(@, rq[r].record, rq[r].dirty)]
    /\ rq' = [rq EXCEPT ![r].pc = "done", ![r].record = NoRecord, ![r].dirty = {}]
    /\ UNCHANGED <<clock, policies, callers, resp, concurrent, auth, sub>>

\* A catch block that answers with an error instead of calling next().
StoreErrorBlocks(r) ==
    /\ rq[r].pc \in {"findOne", "create", "saveReset", "saveCount"}
    /\ rq' = [rq EXCEPT ![r].pc = "done", ![r].path = "error", ![r].outcome = "500",
                        ![r].record = NoRecord, ![r].seen = NoRecord, ![r].dirty = {},
                        ![r].failed = TRUE]
    /\ UNCHANGED <<clock, store, policies, callers, resp, concurrent, auth, sub>>

\* A TTL monitor that deletes every record older than one clock unit.
ExpireEarly(d) ==
    /\ d \in DOMAIN store
    /\ clock - store[d].windowStart >= 1
    /\ store' = [x \in DOMAIN store \ {d} |-> store[x]]
    /\ UNCHANGED <<clock, policies, callers, resp, rq, concurrent, auth, sub>>

\* A TTL index on lastRequest instead of windowStart.
ExpireByLastRequest(d) ==
    /\ d \in DOMAIN store
    /\ clock - store[d].lastRequest >= RetentionMs
    /\ store' = [x \in DOMAIN store \ {d} |-> store[x]]
    /\ UNCHANGED <<clock, policies, callers, resp, rq, concurrent, auth, sub>>

\* The store's TTL monitor deletes a document whose windowStart is older
\* than the retention of the index; a later save of a loaded copy of it
\* matches no document and rejects.
Expire(d) ==
    /\ d \in DOMAIN store
    /\ clock - store[d].windowStart >= RetentionMs
    /\ store' = [x \in DOMAIN store \ {d} |-> store[x]]
    /\ UNCHANGED <<clock, policies, callers, resp, rq, concurrent, auth, sub>>

\* An awaited store call (findOne, create, save) rejects: the catch block
\* logs and calls next().
StoreError(r) ==
    /\ rq[r].pc \in {"findOne", "create", "saveReset", "saveCount"}
    /\ rq' = [rq EXCEPT ![r].pc = "done", ![r].path = "error", ![r].outcome = "next",
                        ![r].nexts = @ + 1,
                        ![r].record = NoRecord, ![r].seen = NoRecord, ![r].dirty = {},
                        ![r].failed = TRUE]
    /\ UNCHANGED <<clock, store, policies, callers, resp, concurrent, auth, sub>>

\* An awaited store call neither resolves nor rejects: the handler has no
\* timer of its own, so the request stays where it is.
Hang(r) ==
    /\ rq[r].pc \in {"findOne", "create", "saveReset", "saveCount"}
    /\ rq' = [rq EXCEPT ![r].pc = "hung"]
    /\ UNCHANGED <<clock, store, policies, callers, resp, concurrent, auth, sub>>

\* The save of the decrement rejects: .catch logs, the response is not
\* affected.
SkipError(r) ==
    /\ rq[r].pc = "saveSkip"
    /\ rq' = [rq EXCEPT ![r].pc = "done", ![r].record = NoRecord, ![r].dirty = {},
                        ![r].failed = TRUE]
    /\ UNCHANGED <<clock, store, policies, callers, resp, concurrent, auth, sub>>

Next ==
    \/ Tick
    \/ \E r \in DOMAIN rq : Start(r)
    \/ \E r \in DOMAIN rq : FindOne(r)
    \/ \E r \in DOMAIN rq : Decide(r)
    \/ \E r \in DOMAIN rq : Create(r)
    \/ \E r \in DOMAIN rq : SaveReset(r)
    \/ \E r \in DOMAIN rq : SaveCount(r)
    \/ \E r \in DOMAIN rq : Respond(r)
    \/ \E r \in DOMAIN rq : SaveSkip(r)
    \/ \E r \in DOMAIN rq : StoreError(r)
    \/ \E r \in DOMAIN rq : SkipError(r)
    \/ \E d \in DOMAIN rq : Expire(d)

\* Runs of NReq requests of one caller under one limiter, their steps
\* interleaved in every way.
Spec == Init /\ [][Next]_vars

\* The steps of a server that handles one request at a time.
NextSeq ==
    \/ Tick
    \/ \E r \in DOMAIN rq : StartAlone(r)
    \/ \E r \in DOMAIN rq : FindOne(r)
    \/ \E r \in DOMAIN rq : Decide(r)
    \/ \E r \in DOMAIN rq : Create(r)
    \/ \E r \in DOMAIN rq : SaveReset(r)
    \/ \E r \in DOMAIN rq : SaveCount(r)
    \/ \E r \in DOMAIN rq : Respond(r)
    \/ \E r \in DOMAIN rq : SaveSkip(r)
    \/ \E r \in DOMAIN rq : StoreError(r)
    \/ \E r \in DOMAIN rq : SkipError(r)
    \/ \E d \in DOMAIN rq : Expire(d)

\* Runs of NSeq requests of one caller under one limiter, handled one at a
\* time.
SpecSeq == InitSeq /\ [][NextSeq]_vars

\* Runs of NMix requests of several callers under one limiter, handled one
\* at a time.
SpecMix == InitMix /\ [][NextSeq]_vars

\* Runs of NSkip requests of one caller under SkipPolicy, their steps
\* interleaved in every way.
SpecSkip == InitSkip /\ [][Next]_vars

\* ------------------------------------------------ introspection
\* RateLimitLog.findOne({ identifier: userId }) of the controller: the first
\* matching document of the collection as it is.
FirstMatching(identifier) ==
    IF Matching(identifier) = {} THEN NoRecord
    ELSE store[CHOOSE d \in Matching(identifier) : \A e \in Matching(identifier) : d <= e]

\* A usage answer that adds the caller's earlier look to the usage.
UsageBodyCounting(rec, now) ==
    IF rec = NoRecord
    THEN [currentUsage |-> IF resp.op = "usage" THEN 1 ELSE 0, limit |-> UsageLimit,
          remaining |-> UsageLimit, resetTime |-> now + UsageWindowMs,
          windowMs |-> UsageWindowMs]
    ELSE [currentUsage |-> rec.count + (IF resp.op = "usage" THEN 1 ELSE 0),
          limit |-> UsageLimit, remaining |-> Remaining(UsageLimit, rec.count),
          resetTime |-> rec.windowStart + UsageWindowMs,
          windowMs |-> UsageWindowMs, lastRequest |-> rec.lastRequest]

\* The data of the 200 answer of getUserRateLimit, without and with a record.
UsageBody(rec, now) ==
    IF rec = NoRecord
    THEN [currentUsage |-> 0, limit |-> UsageLimit, remaining |-> UsageLimit,
          resetTime |-> now + UsageWindowMs, windowMs |-> UsageWindowMs]
    ELSE [currentUsage |-> rec.count, limit |-> UsageLimit,
          remaining |-> Remaining(UsageLimit, rec.count),
          resetTime |-> rec.windowStart + UsageWindowMs,
          windowMs |-> UsageWindowMs, lastRequest |-> rec.lastRequest]

\* The call repeats the last one: same controller and caller, same instant,
\* and the caller's record is as the last call found it.
Repeats(op, user) ==
    resp.op = op /\ resp.user = user /\ resp.at = clock
                 /\ resp.rec = FirstMatching(user.id)

\* A getUserRateLimit that records the look in the document it read.
GetUserRateLimitTouching(c) ==
    LET userId == c.user.id
        rec == FirstMatching(userId)
    IN  /\ userId # "" /\ rec # NoRecord
        /\ store' = [store EXCEPT ![rec.id].lastRequest = clock]
        /\ resp' = [op |-> "usage", user |-> c.user, at |-> clock, rec |-> rec,
                    status |-> 200, body |-> UsageBody(rec, clock),
                    repeat |-> Repeats("usage", c.user),
                    same |-> (resp.status = 200 /\ resp.body = UsageBody(rec, clock))]
        /\ UNCHANGED <<clock, policies, callers, rq, concurrent, auth, sub>>

\* getUserRateLimit: 401 without req.user.id, else the usage read from the
\* caller's record.
GetUserRateLimit(c) ==
    LET userId == c.user.id
        rec == IF userId = "" THEN NoRecord ELSE FirstMatching(userId)
        status == IF userId = "" THEN 401 ELSE 200
        body == IF userId = "" THEN NoBody ELSE UsageBody(rec, clock)
    IN  /\ resp' = [op |-> "usage", user |-> c.user, at |-> clock, rec |-> rec,
                    status |-> status, body |-> body,
                    repeat |-> Repeats("usage", c.user),
                    same |-> (resp.status = status /\ resp.body = body)]
        /\ UNCHANGED <<clock, store, policies, callers, rq, concurrent, auth, sub>>

RECURSIVE SumCounts(_)
\* $sum: "$count" over a set of documents.
SumCounts(ds) ==
    IF ds = {} THEN 0
    ELSE LET d == CHOOSE x \in ds : TRUE IN store[d].count + SumCounts(ds \ {d})

\* The $group stage: one group over all documents; $avg is kept as the pair
\* <<sum, number of documents>>.  An empty collection gives no group and the
\* default summary of line 72.
Summary ==
    IF DOMAIN store = {}
    THEN [totalUsers |-> 0, totalRequests |-> 0, avgRequestsPerUser |-> <<0, 1>>]
    ELSE [totalUsers |-> Cardinality(DOMAIN store),
          totalRequests |-> SumCounts(DOMAIN store),
          avgRequestsPerUser |-> <<SumCounts(DOMAIN store), Cardinality(DOMAIN store)>>]

\* The orders of all documents with lastRequest ascending.
SortedByLastRequestAsc ==
    {s \in [1..Cardinality(DOMAIN store) -> DOMAIN store] :
        /\ \A i, j \in DOMAIN s : i # j => s[i] # s[j]
        /\ \A i, j \in DOMAIN s : i < j => store[s[i]].lastRequest <= store[s[j]].lastRequest}

\* .sort({ lastRequest: -1 }): the orders of all documents with lastRequest
\* descending; documents with equal lastRequest come in any order.
SortedByLastRequest ==
    {s \in [1..Cardinality(DOMAIN store) -> DOMAIN store] :
        /\ \A i, j \in DOMAIN s : i # j => s[i] # s[j]
        /\ \A i, j \in DOMAIN s : i < j => store[s[i]].lastRequest >= store[s[j]].lastRequest}

\* .limit(n)
Limit(s, n) == SubSeq(s, 1, IF Len(s) < n THEN Len(s) ELSE n)

\* .select('identifier count lastRequest')
Select(d) ==
    [id |-> d, identifier |-> store[d].identifier, count |-> store[d].count,
     lastRequest |-> store[d].lastRequest]

\* What the controller holds when the aggregate has answered.
AggregateAnswer ==
    [op |-> "aggregate", user |-> NoUser, at |-> clock, rec |-> NoRecord,
     status |-> 0, body |-> [summary |-> Summary],
     repeat |-> FALSE, same |-> FALSE]

\* The 200 answers the controller can send when the find has answered.
FindAnswers ==
    {[resp EXCEPT !.op = "stats", !.at = clock, !.status = 200,
                  !.body = [summary |-> resp.body.summary,
                            recentActivity |->
                                [i \in DOMAIN Limit(s, RecentLimit) |->
                                    Select(Limit(s, RecentLimit)[i])]]] :
        s \in SortedByLastRequest}

\* getAllRateLimitStats, first store call: the aggregate answers.
Aggregate ==
    /\ resp' = AggregateAnswer
    /\ UNCHANGED <<clock, store, policies, callers, rq, concurrent, auth, sub>>

\* getAllRateLimitStats, second store call: the find answers and the 200 is
\* sent.
Find ==
    /\ resp.op = "aggregate"
    /\ resp' \in FindAnswers
    /\ UNCHANGED <<clock, store, policies, callers, rq, concurrent, auth, sub>>

\* The introspection controllers next to a middleware that handles one
\* request at a time.
NextIntro ==
    \/ Tick
    \/ \E r \in DOMAIN rq : StartAlone(r)
    \/ \E r \in DOMAIN rq : FindOne(r)
    \/ \E r \in DOMAIN rq : Decide(r)
    \/ \E r \in DOMAIN rq : Create(r)
    \/ \E r \in DOMAIN rq : SaveReset(r)
    \/ \E r \in DOMAIN rq : SaveCount(r)
    \/ \E r \in DOMAIN rq : StoreError(r)
    \/ \E d \in DOMAIN rq : Expire(d)
    \/ \E c \in callers : GetUserRateLimit(c)
    \/ Aggregate
    \/ Find

\* Runs of NIntro requests of two callers, handled one at a time, with
\* introspection calls at any moment.
SpecIntro == InitIntro /\ [][NextIntro]_vars

\* Runs of NAgree requests of one user, handled one at a time, with
\* getUserRateLimit calls at any moment.
SpecAgree == InitAgree /\ [][NextIntro]_vars

\* The introspection controllers next to a middleware whose requests
\* interleave.
NextStats ==
    \/ Tick
    \/ \E r \in DOMAIN rq : Start(r)
    \/ \E r \in DOMAIN rq : FindOne(r)
    \/ \E r \in DOMAIN rq : Decide(r)
    \/ \E r \in DOMAIN rq : Create(r)
    \/ \E r \in DOMAIN rq : SaveReset(r)
    \/ \E r \in DOMAIN rq : SaveCount(r)
    \/ \E r \in DOMAIN rq : StoreError(r)
    \/ \E d \in DOMAIN rq : Expire(d)
    \/ \E c \in callers : GetUserRateLimit(c)
    \/ Aggregate
    \/ Find

\* Runs of NIntro interleaved requests of two callers, with introspection
\* calls at any moment.
SpecStats == InitIntro /\ [][NextStats]_vars

\* The steps of one request once it has entered the middleware.
Step(r) ==
    \/ FindOne(r) \/ Decide(r) \/ Create(r) \/ SaveReset(r) \/ SaveCount(r)
    \/ Respond(r) \/ SaveSkip(r) \/ StoreError(r) \/ SkipError(r)

\* The steps of a server that handles one request at a time on a store whose
\* calls may never return.
NextLive ==
    \/ NextSeq
    \/ \E r \in DOMAIN rq : Hang(r)

\* The event loop runs every continuation whose store call has settled, the
\* route handler answers, and the store's TTL monitor keeps running.
Fairness ==
    /\ \A r \in 1..NLive : WF_vars(Step(r))
    /\ \A d \in 1..NLive : WF_vars(Expire(d))

\* Runs of NLive requests handled one at a time, with fair scheduling.
SpecLive == InitLive /\ [][NextLive]_vars /\ Fairness

\* The steps of a limiter without skip options (res.json is passed through).
NextRace ==
    \/ Tick
    \/ \E r \in DOMAIN rq : Start(r)
    \/ \E r \in DOMAIN rq : FindOne(r)
    \/ \E r \in DOMAIN rq : Decide(r)
    \/ \E r \in DOMAIN rq : Create(r)
    \/ \E r \in DOMAIN rq : SaveReset(r)
    \/ \E r \in DOMAIN rq : SaveCount(r)
    \/ \E r \in DOMAIN rq : StoreError(r)
    \/ \E d \in DOMAIN rq : Expire(d)

\* The steps of the limiters mounted on the routes, one invocation at a
\* time.
NextRoutes ==
    \/ Tick
    \/ \E r \in DOMAIN rq : StartRoute(r)
    \/ \E r \in DOMAIN rq : FindOne(r)
    \/ \E r \in DOMAIN rq : Decide(r)
    \/ \E r \in DOMAIN rq : Create(r)
    \/ \E r \in DOMAIN rq : SaveReset(r)
    \/ \E r \in DOMAIN rq : SaveCount(r)
    \/ \E r \in DOMAIN rq : StoreError(r)
    \/ \E d \in DOMAIN rq : Expire(d)

\* Runs of NChain limiter invocations for requests to the routes.
SpecRoutes == InitRoutes /\ [][NextRoutes]_vars

\* Runs of NRace requests of one caller under RacePolicy.
SpecRace == InitRace /\ [][NextRace]_vars

\* ------------------------------------------------------- authentication
\* The Authorization header: absent, not starting with 'Bearer', 'Bearer'
\* with nothing after the space, or 'Bearer <token>'.
Headers == {"missing", "basic", "bearer-empty", "bearer"}
\* jwt.verify: returns the payload or throws JsonWebTokenError,
\* TokenExpiredError or NotBeforeError.
Tokens == {"valid", "malformed", "expired", "not-before"}
\* User.findById: null, a document with isActive true, false or without
\* the field, or a rejected query.
Lookups == {"none", "active", "inactive", "noflag", "error"}
Roles == {"admin", "user"}

\* An authenticate that attaches every user it finds, deactivated or not.
AuthStatusAnyUser(h, t, l) ==
    CASE h # "bearer" -> 401
      [] t \in {"malformed", "expired"} -> 401
      [] t = "not-before" -> 500
      [] l = "none" -> 401
      [] l = "error" -> 500
      [] OTHER -> 0

\* The status authenticate answers with; 0 stands for no answer: req.user
\* is set and next() is called.
AuthStatus(h, t, l) ==
    CASE h # "bearer" -> 401
      [] t \in {"malformed", "expired"} -> 401
      [] t = "not-before" -> 500
      [] l = "none" -> 401
      [] l \in {"inactive", "noflag"} -> 401
      [] l = "error" -> 500
      [] OTHER -> 0

\* A request to the statistics route is between authenticate and its answer.
InProgress ==
    /\ auth.pc \in {"limiters", "controller"}
    /\ ~\E r \in DOMAIN rq : r >= auth.first /\ rq[r].pc = "done" /\ rq[r].outcome = "429"

\* userRouter.use(authenticate) on a new request to
\* GET /users/admin/rate-limit-stats; the token is read only from a Bearer
\* header, the user only for a token that verifies.
Authenticate(h, t, l, role) ==
    /\ ~InProgress
    /\ \A q \in DOMAIN rq : ~InFlight(q)
    /\ t = "" <=> h # "bearer"
    /\ l = "" <=> t # "valid"
    /\ role = "" <=> l \notin {"active", "inactive", "noflag"}
    /\ LET st == AuthStatus(h, t, l)
       IN  auth' = [pc |-> IF st = 0 THEN "limiters" ELSE "answered",
                    header |-> h, token |-> t, lookup |-> l, status |-> st,
                    nexts |-> IF st = 0 THEN 1 ELSE 0,
                    user |-> IF st = 0 THEN [present |-> TRUE, id |-> "u1", role |-> role]
                                       ELSE NoReqUser,
                    first |-> IF st = 0
                              THEN Cardinality({q \in DOMAIN rq : rq[q].pc # "idle"}) + 1
                              ELSE 0]
    /\ resp' = NoResp
    /\ UNCHANGED <<clock, store, policies, callers, rq, concurrent, sub>>

\* A limiter of the statistics route is entered: generalRateLimiter when
\* authenticate has called next(), strictRateLimiter when generalRateLimiter
\* has.
StartStats(r) ==
    /\ auth.pc = "limiters"
    /\ rq[r].pc = "idle"
    /\ \A q \in DOMAIN rq : q < r => rq[q].pc # "idle"
    /\ \A q \in DOMAIN rq : ~InFlight(q)
    /\ r = auth.first \/ (r = auth.first + 1 /\ MidChain(r - 1))
    /\ LET p == Chain("stats")[r - auth.first + 1]
           user == [present |-> TRUE, id |-> auth.user.id]
           ident == ResolveIdentifier(p.type, user, "::1")
           base  == [rq[r] EXCEPT !.policy = p, !.user = user, !.ip = "::1",
                                  !.now = clock, !.identifier = ident,
                                  !.route = "stats"]
       IN  rq' = [rq EXCEPT ![r] =
                     IF NoIdentifier(ident)
                     THEN [base EXCEPT !.pc = "done", !.path = "skip",
                                       !.outcome = "next", !.nexts = 1]
                     ELSE [base EXCEPT !.pc = "findOne"]]
    /\ UNCHANGED <<clock, store, policies, callers, resp, concurrent, auth, sub>>

\* getAllRateLimitStats on the route, entered when strictRateLimiter has
\* called next(): the aggregate answers.
StatsAggregate ==
    /\ auth.pc = "limiters"
    /\ auth.first + 1 \in DOMAIN rq
    /\ rq[auth.first + 1].pc = "done" /\ rq[auth.first + 1].outcome = "next"
    /\ resp' = AggregateAnswer
    /\ auth' = [auth EXCEPT !.pc = "controller"]
    /\ UNCHANGED <<clock, store, policies, callers, rq, concurrent, sub>>

\* getAllRateLimitStats on the route: the find answers and the 200 is sent.
StatsFind ==
    /\ auth.pc = "controller"
    /\ resp' \in FindAnswers
    /\ auth' = [auth EXCEPT !.pc = "answered", !.status = 200]
    /\ UNCHANGED <<clock, store, policies, callers, rq, concurrent, sub>>

\* Runs of SpecAdmin: requests to the statistics route, one at a time.
InitAdmin ==
    /\ clock = 0
    /\ store = <<>>
    /\ policies = {generalRateLimiter, strictRateLimiter}
    /\ callers = {}
    /\ rq = [r \in 1..NAdmin |-> IdleReq]
    /\ concurrent = FALSE
    /\ resp = NoResp
    /\ auth = NoAuth
    /\ sub = NoSub

NextAdmin ==
    \/ Tick
    \/ \E h \in Headers, t \in Tokens \cup {""}, l \in Lookups \cup {""},
          role \in Roles \cup {""} : Authenticate(h, t, l, role)
    \/ \E r \in DOMAIN rq : StartStats(r)
    \/ \E r \in DOMAIN rq : FindOne(r)
    \/ \E r \in DOMAIN rq : Decide(r)
    \/ \E r \in DOMAIN rq : Create(r)
    \/ \E r \in DOMAIN rq : SaveReset(r)
    \/ \E r \in DOMAIN rq : SaveCount(r)
    \/ \E r \in DOMAIN rq : StoreError(r)
    \/ \E d \in DOMAIN rq : Expire(d)
    \/ StatsAggregate
    \/ StatsFind

SpecAdmin == InitAdmin /\ [][NextAdmin]_vars

\* -------------------------------------------------------- subscriptions
Frequencies == {"Monthly", "Yearly", "Weekly"}
\* The days the pre('save') hook adds for a frequency.
renewalPeriods(frequency) ==
    CASE frequency = "Monthly" -> 30
      [] frequency = "Yearly" -> 365
      [] frequency = "Weekly" -> 7

\* Runs of SpecSub: one new subscription document, dates in days, the clock
\* being today; the other required fields are given and valid.
InitSub ==
    /\ clock \in Time
    /\ store = <<>>
    /\ policies = {}
    /\ callers = {}
    /\ rq = <<>>
    /\ concurrent = FALSE
    /\ resp = NoResp
    /\ auth = NoAuth
    /\ \E start \in 0..MaxStart, f \in Frequencies \cup {""} :
       \E given \in {Absent} \cup {start + k : k \in {0, 7, 30, 365}} :
          sub = [pc |-> "new", startDate |-> start, frequency |-> f,
                 renewalDate |-> given, given |-> given, error |-> ""]

\* save() validates the document before any pre('save') hook of the schema
\* runs: frequency in its enum, startDate not in the future, renewalDate
\* required and after startDate.
Validate ==
    /\ sub.pc = "new"
    /\ LET ok == /\ sub.frequency \in Frequencies
                 /\ sub.startDate <= clock
                 /\ sub.renewalDate # Absent
                 /\ sub.renewalDate > sub.startDate
       IN  sub' = IF ok THEN [sub EXCEPT !.pc = "validated"]
                        ELSE [sub EXCEPT !.pc = "rejected", !.error = "ValidationError"]
    /\ UNCHANGED <<clock, store, policies, callers, rq, concurrent, resp, auth>>

\* The pre('save') hook of the schema: a missing renewalDate becomes
\* startDate plus the days of the frequency.
PreSave ==
    /\ sub.pc = "validated"
    /\ sub' = [sub EXCEPT !.pc = "hooked",
                          !.renewalDate = IF sub.renewalDate = Absent
                                          THEN sub.startDate + renewalPeriods(sub.frequency)
                                          ELSE sub.renewalDate]
    /\ UNCHANGED <<clock, store, policies, callers, rq, concurrent, resp, auth>>

\* The document is written and save() resolves.
Insert ==
    /\ sub.pc = "hooked"
    /\ sub' = [sub EXCEPT !.pc = "saved"]
    /\ UNCHANGED <<clock, store, policies, callers, rq, concurrent, resp, auth>>

NextSub == Validate \/ PreSave \/ Insert

SpecSub == InitSub /\ [][NextSub]_vars

TypeOK ==
    /\ clock \in Time
    /\ policies \subseteq Policies \cup {RacePolicy, SkipPolicy, ipRateLimiter,
                                         registrationRateLimiter,
                                         generalRateLimiter, strictRateLimiter}
                     \cup {[type |-> "hybrid", maxRequests |-> UsageLimit,
                            windowMs |-> UsageWindowMs,
                            skipSuccessfulRequests |-> FALSE,
                            skipFailedRequests |-> FALSE]}
    /\ \A r \in DOMAIN rq : rq[r].pc \in {"idle", "findOne", "decide", "create", "saveReset",
                                     "saveCount", "handler", "saveSkip", "hung", "done"}

\* ================================================================ claims
Started(r) == rq[r].pc # "idle"
Done(r) == rq[r].pc = "done"

\* Admit of a limited request: headers set and next() called.
Admitted(r) == rq[r].outcome = "next" /\ rq[r].limited
Rejected(r) == rq[r].outcome = "429"

\* The requests billed to the same identifier under the same limiter as r.
Group(r) ==
    {q \in DOMAIN rq : /\ Started(q)
                       /\ rq[q].identifier = rq[r].identifier
                       /\ rq[q].policy = rq[r].policy}
First(r) == CHOOSE q \in Group(r) : \A q2 \in Group(r) : q <= q2
Rank(r) == Cardinality({q \in Group(r) : q <= r})
NoFailure(r) == \A q \in Group(r) : ~rq[q].failed
NoSkipOptions(p) == ~p.skipSuccessfulRequests /\ ~p.skipFailedRequests
Limitable(r) == Started(r) /\ ~NoIdentifier(rq[r].identifier)

\* C1: N > Q requests of one identifier handled inside one window, in any
\* interleaving, give exactly Q admits and N-Q rejects, never more than Q
\* admits.
NoOverAdmission ==
    \A r \in DOMAIN rq :
        (/\ Limitable(r)
         /\ NoFailure(r)
         /\ clock - rq[First(r)].now < rq[r].policy.windowMs)
        => LET admits == Cardinality({q \in Group(r) : Admitted(q)})
               rejects == Cardinality({q \in Group(r) : Rejected(q)})
               n == Cardinality(Group(r))
               quota == rq[r].policy.maxRequests
           IN  /\ admits <= quota
               /\ ((n > quota /\ \A q \in Group(r) : Done(q))
                   => (admits = quota /\ rejects = n - quota))

\* What the k-th request of a window is answered: admitted with
\* remaining = Q - k up to the quota, rejected with remaining = 0 after it.
KthAnswer(r) ==
    IF Rank(r) <= rq[r].policy.maxRequests
    THEN Admitted(r) /\ rq[r].remaining = rq[r].policy.maxRequests - Rank(r)
    ELSE Rejected(r) /\ rq[r].remaining = 0

\* C2 as stated: with requests handled one at a time and no store failure,
\* every request that arrives less than W after the first one gets the
\* answer of its rank.
SequentialQuotaByArrival ==
    \A r \in DOMAIN rq :
        (/\ Limitable(r) /\ Done(r)
         /\ ~concurrent /\ NoFailure(r)
         /\ rq[r].now - rq[First(r)].now < rq[r].policy.windowMs)
        => KthAnswer(r)

\* C2 (amended): under a limiter without skip options, with requests handled
\* one at a time and no store failure, every request that is finished less
\* than W after the first one arrived gets the answer of its rank:
\* remaining Q-1, Q-2, ..., 0 and then 429 with remaining 0.
SequentialQuota ==
    \A r \in DOMAIN rq :
        (/\ Limitable(r) /\ Done(r)
         /\ ~concurrent /\ NoFailure(r)
         /\ NoSkipOptions(rq[r].policy)
         /\ clock - rq[First(r)].now < rq[r].policy.windowMs)
        => KthAnswer(r)

\* A sequential run inside one window in which the request after the quota
\* has been rejected.
SequentialQuotaWitness ==
    \E r \in DOMAIN rq :
        /\ Limitable(r) /\ Done(r)
        /\ ~concurrent /\ NoFailure(r)
        /\ NoSkipOptions(rq[r].policy)
        /\ clock - rq[First(r)].now < rq[r].policy.windowMs
        /\ Rank(r) = rq[r].policy.maxRequests + 1
        /\ Rejected(r)
        /\ \A q \in Group(r) : q < r => Admitted(q)

\* C3: a request answered 429 has written nothing: the step that rejects it
\* leaves the collection as it was, and none of its earlier steps wrote.
RejectConsumesNothing ==
    [][\A r \in DOMAIN rq :
          rq'[r].outcome = "429"
          => /\ ~rq'[r].wrote
             /\ (rq[r].outcome # "429" => store' = store)]_vars

\* A rejected request whose identifier has a record at the limit.
RejectWitness ==
    \E r \in DOMAIN rq :
        /\ Rejected(r)
        /\ \E d \in Matching(rq[r].identifier) :
              store[d].count >= rq[r].policy.maxRequests

\* C4: with no request in flight, the stored count of an identifier is the
\* number of its admitted requests (stated for an identifier with a single
\* record and for runs without rollover, TTL expiry, skip options or store
\* failure, where every admit falls in the stored window).
CountExact ==
    \A r \in DOMAIN rq :
        (/\ Limitable(r)
         /\ \A q \in DOMAIN rq : ~InFlight(q)
         /\ Cardinality(Matching(rq[r].identifier)) = 1
         /\ clock < RetentionMs
         /\ NoFailure(r)
         /\ NoSkipOptions(rq[r].policy)
         /\ \A q \in Group(r) : rq[q].path # "reset")
        => \A d \in Matching(rq[r].identifier) :
              store[d].count = Cardinality({q \in Group(r) : Admitted(q)})

\* C5: a request that finds a record whose window had elapsed when it
\* arrived takes the rollover path whatever the count; when it is the only
\* request in flight and its save succeeds it is admitted with
\* remaining = Q - 1 and leaves count = 1 and windowStart at the time of its
\* expiry check, which is not before its arrival.
WindowRollover ==
    [][\A r \in DOMAIN rq :
          /\ (/\ rq[r].pc = "decide" /\ rq'[r].pc # "decide"
              /\ rq[r].record.id # 0
              /\ rq[r].now - rq[r].record.windowStart >= rq[r].policy.windowMs)
             => rq'[r].pc = "saveReset"
          /\ (/\ rq[r].pc = "saveReset" /\ rq'[r].pc # "saveReset"
              /\ ~rq'[r].failed /\ ~concurrent)
             => /\ Admitted(r)'
                /\ rq'[r].remaining = rq[r].policy.maxRequests - 1
                /\ store'[rq[r].record.id].count = 1
                /\ store'[rq[r].record.id].windowStart = rq[r].record.windowStart
                /\ rq[r].now <= rq[r].record.windowStart
                /\ rq[r].record.windowStart <= clock]_vars

\* A rollover of a record that was at the limit, by the only request in
\* flight.
WindowRolloverWitness ==
    \E r \in DOMAIN rq :
        /\ Done(r) /\ rq[r].path = "reset" /\ ~concurrent
        /\ rq[r].seen.count >= rq[r].policy.maxRequests
        /\ rq[r].now - rq[r].seen.windowStart >= rq[r].policy.windowMs
        /\ rq[r].remaining = rq[r].policy.maxRequests - 1
        /\ \E d \in Matching(rq[r].identifier) : store[d].count = 1

\* C6: the collection never holds two records of one identifier.
OneRecordPerIdentifier ==
    \A d1 \in DOMAIN store, d2 \in DOMAIN store :
        store[d1].identifier = store[d2].identifier => d1 = d2

\* C7: while windowStart stays the same the stored count never decreases,
\* and count becomes 1 only by creation or rollover.
CountMonotone ==
    [][\A d \in DOMAIN store' :
          IF d \in DOMAIN store
          THEN store'[d].windowStart = store[d].windowStart
               => /\ store'[d].count >= store[d].count
                  /\ (store'[d].count = 1 => store[d].count = 1)
          ELSE store'[d].count = 1]_vars

\* C8: the stored windowStart never moves back, and it changes only by the
\* save of a request whose expiry check ran at least W after the value it
\* replaces.
WindowStartMonotone ==
    [][\A d \in DOMAIN store :
          (d \in DOMAIN store' /\ store'[d].windowStart # store[d].windowStart)
          => /\ store'[d].windowStart > store[d].windowStart
             /\ \E r \in DOMAIN rq :
                   /\ rq[r].pc = "saveReset" /\ rq'[r].pc = "done"
                   /\ rq[r].record.id = d
                   /\ rq[r].record.windowStart - store[d].windowStart
                        >= rq[r].policy.windowMs]_vars

\* C9: a request one of whose store calls failed is forwarded to the next
\* handler; it is answered neither 429 nor with an error, and its failing
\* step changes nothing in the collection.
FailOpen ==
    [][\A r \in DOMAIN rq :
          rq'[r].failed
          => /\ rq'[r].pc = "done" /\ rq'[r].outcome = "next"
             /\ (~rq[r].failed => store' = store)]_vars

\* A request forwarded after a failed store call.
FailOpenWitness ==
    \E r \in DOMAIN rq :
        /\ Done(r) /\ rq[r].failed /\ rq[r].path = "error"
        /\ rq[r].outcome = "next" /\ ~rq[r].limited

\* C10: under a 'token' limiter a request without req.user resolves to no
\* identifier: it is forwarded without touching the store.
TokenNeverFallsBack ==
    \A r \in DOMAIN rq :
        (Started(r) /\ rq[r].policy.type = "token" /\ ~rq[r].user.present)
        => /\ NoIdentifier(rq[r].identifier)
           /\ rq[r].path = "skip"
           /\ ~rq[r].wrote

\* No request is in flight.
Quiet == \A q \in DOMAIN rq : ~InFlight(q)

\* The stored window of r's identifier is the one its first request opened.
InFirstWindow(r) == clock - rq[First(r)].now < rq[r].policy.windowMs

\* C11: under an 'ip' limiter every request is keyed by its normalised
\* address, with or without req.user, so that requests of one address handled
\* one at a time inside a window are counted in one record.
IpKeysOnAddress ==
    \A r \in DOMAIN rq :
        (Started(r) /\ rq[r].policy.type = "ip")
        => /\ rq[r].identifier = NormalizeAddress(rq[r].ip)
           /\ \A d \in DOMAIN store : store[d].identifier # "u1"
           /\ (/\ Quiet /\ ~concurrent /\ NoFailure(r) /\ InFirstWindow(r)
               /\ \E q \in Group(r) : Admitted(q))
              => /\ Cardinality(Matching(rq[r].identifier)) = 1
                 /\ \A d \in Matching(rq[r].identifier) :
                       store[d].count =
                         Cardinality({q \in DOMAIN rq :
                                        /\ Admitted(q)
                                        /\ NormalizeAddress(rq[q].ip) = rq[r].identifier})

\* An authenticated and an anonymous request of one address counted in the
\* same record under an 'ip' limiter.
IpKeysOnAddressWitness ==
    \E q \in DOMAIN rq, r \in DOMAIN rq :
        /\ rq[r].policy.type = "ip"
        /\ Admitted(q) /\ Admitted(r) /\ Quiet
        /\ rq[q].user.present /\ rq[q].user.id = "u1" /\ ~rq[r].user.present
        /\ rq[q].ip = rq[r].ip
        /\ \E d \in Matching(rq[r].identifier) : store[d].count = 2

Loopback == {"::1", "127.0.0.1"}

\* C12: no record is keyed by '::1' or '127.0.0.1'; under an 'ip' limiter
\* both addresses resolve to 'localhost', and after a requests from '::1'
\* and b from '127.0.0.1' handled one at a time in one window (a + b <= Q)
\* the one 'localhost' record has count = a + b.
LoopbackShared ==
    /\ \A d \in DOMAIN store : store[d].identifier \notin Loopback
    /\ \A r \in DOMAIN rq :
          (Started(r) /\ rq[r].policy.type = "ip" /\ rq[r].ip \in Loopback)
          => /\ rq[r].identifier = "localhost"
             /\ LET a == Cardinality({q \in DOMAIN rq : Started(q) /\ rq[q].ip = "::1"})
                    b == Cardinality({q \in DOMAIN rq : Started(q) /\ rq[q].ip = "127.0.0.1"})
                IN  (/\ Quiet /\ ~concurrent /\ NoFailure(r) /\ InFirstWindow(r)
                     /\ a + b <= rq[r].policy.maxRequests)
                    => /\ Cardinality(Matching("localhost")) = 1
                       /\ \A d \in Matching("localhost") : store[d].count = a + b

\* One request from each loopback address, counted together.
LoopbackSharedWitness ==
    \E q \in DOMAIN rq, r \in DOMAIN rq :
        /\ rq[r].policy.type = "ip" /\ Quiet
        /\ Admitted(q) /\ Admitted(r)
        /\ rq[q].ip = "::1" /\ rq[r].ip = "127.0.0.1"
        /\ \E d \in Matching("localhost") : store[d].count = 2

\* C13: under a 'hybrid' limiter a request with an identity is keyed by the
\* user id and one without by the normalised address, the two keys differ,
\* and the steps of a request leave the records of every other identifier
\* unchanged.
HybridKeys ==
    [][\A r \in DOMAIN rq :
          (Started(r)' /\ rq'[r].policy.type = "hybrid")
          => /\ rq'[r].identifier = IF rq'[r].user.present THEN rq'[r].user.id
                                    ELSE NormalizeAddress(rq'[r].ip)
             /\ \A q \in DOMAIN rq :
                   (/\ Started(q)' /\ rq'[q].ip = rq'[r].ip
                    /\ rq'[r].user.present /\ rq'[r].user.id # ""
                    /\ ~rq'[q].user.present)
                   => rq'[q].identifier # rq'[r].identifier
             /\ (rq'[r] # rq[r]
                 => \A d \in DOMAIN store :
                       store[d].identifier # rq'[r].identifier
                       => (d \in DOMAIN store' /\ store'[d] = store[d]))]_vars

\* The same address once with and once without identity: two records.
HybridKeysWitness ==
    \E q \in DOMAIN rq, r \in DOMAIN rq :
        /\ rq[r].policy.type = "hybrid" /\ Quiet
        /\ Admitted(q) /\ Admitted(r)
        /\ rq[q].ip = rq[r].ip
        /\ rq[q].user.present /\ ~rq[r].user.present
        /\ \E d \in Matching("u1") : store[d].count = 1
        /\ \E d \in Matching("localhost") : store[d].count = 1

\* C14: a request whose identifier is empty or 'unknown' is forwarded at
\* once: one next(), no store call, no record written, no header set.
UnresolvableSkips ==
    \A r \in DOMAIN rq :
        (Started(r) /\ rq[r].identifier \in {"", "unknown"})
        => /\ Done(r) /\ rq[r].path = "skip"
           /\ rq[r].outcome = "next" /\ rq[r].nexts = 1
           /\ ~rq[r].limited /\ ~rq[r].wrote /\ ~rq[r].failed
           /\ rq[r].hdrType = "" /\ rq[r].limit = 0 /\ rq[r].reset = 0

\* A request without address and a request with an identity without id, both
\* forwarded unlimited.
UnresolvableSkipsWitness ==
    \E q \in DOMAIN rq, r \in DOMAIN rq :
        /\ Done(q) /\ rq[q].path = "skip" /\ rq[q].ip = "" /\ rq[q].identifier = "unknown"
        /\ Done(r) /\ rq[r].path = "skip" /\ rq[r].user.present /\ rq[r].identifier = ""
        /\ rq[q].nexts = 1 /\ rq[r].nexts = 1

\* C15: at the step that admits a limited request (record created, window
\* rolled over or count incremented) the reported limit is Q, the reported
\* remaining is max(0, Q - stored count) and the reported reset is the
\* stored windowStart + W.
AdmitValuesMatchStore ==
    [][\A r \in DOMAIN rq :
          (Admitted(r)' /\ ~Admitted(r))
          => /\ rq'[r].limit = rq'[r].policy.maxRequests
             /\ rq'[r].remaining >= 0
             /\ \A d \in DOMAIN store' :
                   store'[d].identifier = rq'[r].identifier
                   => /\ rq'[r].remaining =
                           Remaining(rq'[r].policy.maxRequests, store'[d].count)
                      /\ rq'[r].reset = store'[d].windowStart + rq'[r].policy.windowMs]_vars

\* C16: the retryAfter of every 429 is at least 1 and at most ceil(W / 1000).
RetryAfterBounds ==
    \A r \in DOMAIN rq :
        Rejected(r)
        => /\ rq[r].retryAfter >= 1
           /\ rq[r].retryAfter <= CeilDiv(ToMs(rq[r].policy.windowMs), MsPerSecond)

\* C17: the reported type is 'token' exactly when the request was counted
\* against the id of req.user and 'ip' exactly when it was counted against
\* the normalised address.
TypeMatchesStrategy ==
    \A r \in DOMAIN rq :
        rq[r].hdrType # ""
        => /\ rq[r].hdrType = "token"
                <=> (rq[r].user.present /\ rq[r].identifier = rq[r].user.id)
           /\ rq[r].hdrType = "ip"
                <=> rq[r].identifier = NormalizeAddress(rq[r].ip)

\* C18: next() is never called twice; a request that has left the middleware
\* was either admitted (next() once, no 429) or rejected (429 with
\* error = RATE_LIMIT_EXCEEDED, remaining = 0, limit = Q, next() never).
ExactlyOneOutcome ==
    \A r \in DOMAIN rq :
        /\ rq[r].nexts <= 1
        /\ (rq[r].pc \in {"handler", "saveSkip"}
            => (rq[r].nexts = 1 /\ rq[r].outcome = "next"))
        /\ Done(r)
           => \/ /\ rq[r].outcome = "next" /\ rq[r].nexts = 1
                 /\ rq[r].error = ""
              \/ /\ rq[r].outcome = "429" /\ rq[r].nexts = 0
                 /\ rq[r].error = "RATE_LIMIT_EXCEEDED"
                 /\ rq[r].remaining = 0
                 /\ rq[r].limit = rq[r].policy.maxRequests

\* One request admitted and one rejected.
ExactlyOneOutcomeWitness ==
    \E q \in DOMAIN rq, r \in DOMAIN rq :
        /\ Done(q) /\ Admitted(q) /\ rq[q].nexts = 1
        /\ Done(r) /\ Rejected(r) /\ rq[r].nexts = 0

\* Admitted requests whose answer the limiter's options do not exclude.
NotExcluded(r) ==
    {q \in Group(r) : /\ Admitted(q) /\ rq[q].status # ""
                      /\ ~Excluded(rq[q].policy, rq[q].status = "ok")}

\* C19: the save of a compensating decrement lowers the stored count by one
\* (it erases no increment of another request), and once every request and
\* decrement of a window has completed the stored count is within one of the
\* number of counted requests whose outcome was not excluded.
DecrementAccurate ==
    [][\A r \in DOMAIN rq :
          /\ (rq[r].pc = "saveSkip" /\ rq'[r].pc = "done" /\ ~rq'[r].failed)
             => store'[rq[r].record.id].count = store[rq[r].record.id].count - 1
          /\ (/\ Limitable(r) /\ Quiet' /\ NoFailure(r)'
              /\ SkipOptions(rq'[r].policy)
              /\ clock' - rq'[First(r)'].now < rq'[r].policy.windowMs
              /\ Cardinality(Matching(rq[r].identifier)') = 1)
             => \A d \in Matching(rq[r].identifier)' :
                   LET n == Cardinality(NotExcluded(r)')
                   IN  store'[d].count - n \in {-1, 0, 1}]_vars

\* C20: under a limiter with skipSuccessfulRequests or skipFailedRequests,
\* after requests handled one at a time in one window the stored count is the
\* number of admitted requests whose outcome was not excluded: an excluded
\* request, the creating and the rolling-over one included, leaves the count
\* as it found it.
ExcludedNotCounted ==
    \A r \in DOMAIN rq :
        (/\ Limitable(r) /\ Quiet /\ ~concurrent /\ NoFailure(r)
         /\ SkipOptions(rq[r].policy)
         /\ InFirstWindow(r))
        => \A d \in Matching(rq[r].identifier) :
              store[d].count = Cardinality(NotExcluded(r))

\* The TTL index applies to record d.
Stale(d) == d \in DOMAIN store /\ clock - store[d].windowStart >= RetentionMs

\* C21: a record whose windowStart is older than the retention is eventually
\* deleted (or rolled over), under every limiter; a request that finds no
\* record of its identifier creates one with count = 1 and is admitted as
\* the first request of a window.
RetentionExpiry ==
    /\ \A d \in 1..NLive : Stale(d) ~> ~Stale(d)
    /\ [][\A r \in DOMAIN rq :
             /\ (rq[r].pc = "findOne" /\ rq'[r].pc = "decide"
                 /\ Matching(rq[r].identifier) = {})
                => rq'[r].record = NoRecord
             /\ (rq[r].pc = "decide" /\ rq[r].record = NoRecord /\ rq'[r] # rq[r])
                => rq'[r].pc = "create"
             /\ (rq[r].pc = "create" /\ rq'[r].pc \in {"handler", "done"}
                 /\ ~rq'[r].failed)
                => /\ r \in DOMAIN store'
                   /\ store'[r].identifier = rq[r].identifier
                   /\ store'[r].count = 1
                   /\ store'[r].windowStart = rq[r].now
                   /\ Admitted(r)'
                   /\ rq'[r].remaining = rq[r].policy.maxRequests - 1]_vars

\* The first record was deleted by the store and the next request created a
\* new one.
RetentionExpiryWitness ==
    /\ rq[1].path = "create" /\ 1 \notin DOMAIN store
    /\ rq[2].path = "create" /\ Done(2)
    /\ 2 \in DOMAIN store /\ store[2].count = 1
    /\ rq[2].identifier = rq[1].identifier

\* The middleware has called next() or sent the 429.
Decided(r) == rq[r].outcome # ""

\* C22: every request that enters the middleware eventually reaches Admit
\* or Reject, also when a store call never returns.
AdmissionCompletes ==
    \A r \in 1..NLive : Started(r) ~> Decided(r)

IntrospectionReadOnly ==
    [][/\ resp' # resp => store' = store
       /\ store' # store
          => \/ \E r \in DOMAIN rq : rq'[r] # rq[r]
             \/ /\ DOMAIN store' \subseteq DOMAIN store
                /\ \A d \in DOMAIN store' : store'[d] = store[d]]_vars

\* Global statistics answered over a collection with records.
IntrospectionReadOnlyWitness ==
    /\ resp.op = "stats" /\ resp.status = 200
    /\ Len(resp.body.recentActivity) >= 1
    /\ resp.body.summary.totalRequests >= 2
    /\ DOMAIN store # {}

UsageFields == {"currentUsage", "limit", "remaining", "resetTime", "windowMs", "lastRequest"}

\* C25: the 200 answer of getUserRateLimit has the fields currentUsage,
\* limit, remaining, resetTime, windowMs and lastRequest with and without a
\* record; without one it reports usage 0, remaining = limit and
\* resetTime = now + windowMs, with one the record's count, max(0, limit -
\* count), windowStart + windowMs and lastRequest.
UsageFromRecord ==
    (resp.op = "usage" /\ resp.status = 200)
    => /\ DOMAIN resp.body = UsageFields
       /\ resp.body.limit = UsageLimit /\ resp.body.windowMs = UsageWindowMs
       /\ IF resp.rec = NoRecord
          THEN /\ resp.body.currentUsage = 0
               /\ resp.body.remaining = resp.body.limit
               /\ resp.body.resetTime = resp.at + resp.body.windowMs
          ELSE /\ resp.body.currentUsage = resp.rec.count
               /\ resp.body.remaining =
                    (IF resp.body.limit > resp.rec.count
                     THEN resp.body.limit - resp.rec.count ELSE 0)
               /\ resp.body.resetTime = resp.rec.windowStart + resp.body.windowMs
               /\ resp.body.lastRequest = resp.rec.lastRequest

\* The identifiers that have a record.
Identifiers == {store[d].identifier : d \in DOMAIN store}

\* C26: the summary of getAllRateLimitStats is exact for the collection the
\* aggregate reads: totalUsers is the number of distinct identifiers,
\* totalRequests the sum of the counts, avgRequestsPerUser their quotient,
\* and all three are 0 for an empty collection.
SummaryExact ==
    [][(resp'.op = "aggregate" /\ resp' # resp)
       => LET sum == resp'.body.summary
              total == SumCounts(DOMAIN store)
              users == Cardinality(Identifiers)
          IN  /\ sum.totalUsers = users
              /\ sum.totalRequests = total
              /\ sum.avgRequestsPerUser = IF users = 0 THEN <<0, 1>> ELSE <<total, users>>]_vars

AdmittedOn(route) == {r \in DOMAIN rq : rq[r].route = route /\ Admitted(r)}

\* C28: POST /auth/sign-in admits at most 5 requests (scaled: SignInDocQuota)
\* of one address in 15 minutes (longer than a run).
SignInLimit ==
    Cardinality(AdmittedOn("sign-in")) <= SignInDocQuota

\* C29: POST /users and POST /auth/sign-up each admit at most 3 requests
\* (scaled: RegistrationQuota) that arrive within one minute, and each
\* admits a request of an address that has not used the endpoint in the
\* last minute.
RegistrationLimit ==
    \A e \in {"users", "sign-up"} :
        \A r \in DOMAIN rq :
            (rq[r].route = e /\ Done(r) /\ ~rq[r].failed)
            => /\ Cardinality({q \in AdmittedOn(e) :
                                 /\ rq[q].now >= rq[r].now
                                 /\ rq[q].now < rq[r].now + MinuteMs}) <= RegistrationQuota
               /\ (\A q \in DOMAIN rq :
                      (q < r /\ rq[q].route = e) => rq[r].now - rq[q].now >= MinuteMs)
                  => Admitted(r)

\* The invocations of strictRateLimiter up to r.
StrictRank(r) ==
    Cardinality({q \in DOMAIN rq : q <= r /\ rq[q].policy = strictRateLimiter
                                          /\ Started(q)})

\* C30: for a user who calls GET /users/:id/rate-limit and no other route,
\* strictRateLimiter admits the first 10 (scaled: StrictQuota) requests of a
\* minute and rejects the next, behind generalRateLimiter.
StrictLimit ==
    \A r \in DOMAIN rq :
        (/\ \A q \in DOMAIN rq : Started(q) => (rq[q].route = "rate-limit" /\ ~rq[q].failed)
         /\ rq[r].policy = strictRateLimiter /\ Done(r)
         /\ clock - rq[1].now < MinuteMs)
        => IF StrictRank(r) <= StrictQuota THEN Admitted(r) ELSE Rejected(r)

\* C34: a request is rejected under a limiter only when earlier requests
\* handled under that limiter used up its quota in the window, and a window
\* is rolled over only for a record that a request under that limiter
\* opened.
PolicyIsolation ==
    \A r \in DOMAIN rq :
        LET own == {q \in DOMAIN rq : /\ q < r /\ Admitted(q)
                                      /\ rq[q].policy = rq[r].policy
                                      /\ rq[q].identifier = rq[r].identifier}
        IN  /\ Rejected(r) => Cardinality(own) >= rq[r].policy.maxRequests
            /\ (Done(r) /\ rq[r].path = "reset") => own # {}

\* The first limiter of the route of an HTTP request.
FirstLimiter(q) == Started(q) /\ rq[q].route # "" /\ rq[q].policy = Chain(rq[q].route)[1]

\* C35: the stored count of an identifier is at most the number of HTTP
\* requests of that identifier: no request is counted twice, whatever
\* limiters its route chains.
CountedOnce ==
    \A d \in DOMAIN store :
        store[d].count <=
            Cardinality({q \in DOMAIN rq : FirstLimiter(q)
                                           /\ rq[q].identifier = store[d].identifier})

\* C36: when getUserRateLimit has just reported on the record a
\* generalRateLimiter request of the same user finds at the same instant,
\* the request is rejected if remaining = 0 was reported and admitted if
\* remaining > 0 was.
AgreesWithAdmission ==
    [][\A r \in DOMAIN rq :
          (/\ rq[r].outcome = "" /\ rq'[r].outcome # "" /\ ~rq'[r].failed
           /\ resp.op = "usage" /\ resp.status = 200
           /\ resp.user = rq[r].user
           /\ resp.at = clock /\ rq[r].now = clock
           /\ resp.rec = rq[r].seen)
          => IF resp.body.remaining = 0 THEN Rejected(r)' ELSE Admitted(r)']_vars

\* C37: every stored record has windowStart <= lastRequest, and the
\* lastRequest of a record never moves back.
TimestampsOrdered ==
    [][\A d \in DOMAIN store' :
          /\ store'[d].windowStart <= store'[d].lastRequest
          /\ d \in DOMAIN store => store'[d].lastRequest >= store[d].lastRequest]_vars

\* C38: every stored record has count >= 1.
CountsPositive ==
    \A d \in DOMAIN store : store[d].count >= 1

\* A counted request whose excluded answer took its increment back, leaving
\* the count at 1.
CountsPositiveWitness ==
    \E r \in DOMAIN rq :
        /\ Done(r) /\ rq[r].wrapped /\ rq[r].path = "count" /\ rq[r].status = "ok"
        /\ ~rq[r].failed /\ Excluded(rq[r].policy, TRUE)
        /\ \E d \in Matching(rq[r].identifier) : store[d].count = 1

\* C39: the window of every pre-configured limiter is shorter than the
\* retention of the TTL index; the store deletes no record whose window is
\* live for a limiter of the run, and a request admitted with a new record
\* after a reject of its identifier comes no earlier than the reset time that
\* reject reported.
ExpiryNotEarly ==
    /\ \A w \in PresetWindowsMs : w < ExpireAfterSeconds * MsPerSecond
    /\ [][/\ \A d \in DOMAIN store \ DOMAIN store' :
                \A p \in policies : clock - store[d].windowStart >= p.windowMs
          /\ \A q \in DOMAIN rq :
                (rq[q].pc = "create" /\ Admitted(q)')
                => \A r \in DOMAIN rq :
                      (/\ Rejected(r) /\ rq[r].identifier = rq[q].identifier
                       /\ rq[r].policy = rq[q].policy)
                      => clock >= rq[r].reset]_vars

\* A rejected caller, its record deleted by the store, and a later request
\* admitted with a new record.
ExpiryNotEarlyWitness ==
    \E r \in DOMAIN rq, q \in DOMAIN rq :
        /\ Rejected(r) /\ r < q
        /\ Admitted(q) /\ rq[q].path = "create"
        /\ rq[q].identifier = rq[r].identifier
        /\ rq[q].now >= rq[r].reset

\* The request authenticate let through: a Bearer token that verifies and
\* names an existing, active user.
ValidCaller ==
    auth.header = "bearer" /\ auth.token = "valid" /\ auth.lookup = "active"

\* C31: the statistics route answers 200 with the statistics only to a
\* caller whose role is admin; every other caller it answers gets 401 or
\* 403 (a caller whose authentication failed with an error aside).
AdminOnly ==
    (auth.pc = "answered" /\ auth.status # 500 /\ auth.user.role # "admin")
    => auth.status \in {401, 403} /\ resp.op # "stats"

\* C32: authenticate calls next, once and with req.user set from the user
\* document, only for a Bearer token that verifies and names an existing
\* active user; in every other case next is not called and the answer is
\* 401, or 500 when the token is not yet valid or the user lookup fails.
AuthGate ==
    auth.pc # "idle" =>
        IF ValidCaller
        THEN auth.nexts = 1 /\ auth.user.present /\ auth.user.id = "u1"
                            /\ auth.user.role \in Roles
        ELSE /\ auth.nexts = 0 /\ ~auth.user.present
             /\ auth.status = IF auth.token = "not-before" \/ auth.lookup = "error"
                              THEN 500 ELSE 401

\* A deactivated user with a token that verifies is refused.
AuthGateWitness ==
    /\ auth.pc = "answered" /\ auth.lookup = "inactive"
    /\ auth.status = 401 /\ auth.nexts = 0

\* C32 as stated: every case but the valid one is answered 401.
AuthGateAlways401 ==
    (auth.pc # "idle" /\ ~ValidCaller) => auth.nexts = 0 /\ auth.status = 401

\* C33: a save of an otherwise valid subscription without renewalDate
\* succeeds and stores startDate plus 30, 365 or 7 days; a stored document
\* keeps the renewalDate it was given.
RenewalDateComputed ==
    (/\ sub.pc \in {"saved", "rejected"}
     /\ sub.frequency \in Frequencies /\ sub.startDate <= clock)
    => IF sub.given = Absent
       THEN sub.pc = "saved"
            /\ sub.renewalDate = sub.startDate + renewalPeriods(sub.frequency)
       ELSE sub.pc = "saved" => sub.renewalDate = sub.given
====
